---- MODULE Spec2Model ----
(***************************************************************************)
(* DefaultCache<K, V> of src/cache/default_cache.rs: a thin wrapper around *)
(* ttl_cache::TtlCache<K, V> plus the default TTL handed to every insert.  *)
(*                                                                         *)
(* TtlCache keeps its entries in a LinkedHashMap, modelled as a sequence   *)
(* ordered front (oldest insertion) to back (newest insertion).  Each      *)
(* entry carries the value and an absolute expiration instant.  Lookups    *)
(* take &self and filter expired entries without removing them; insert     *)
(* attaches at the back and pops the front when the map grew past          *)
(* max_size; set_capacity pops the front until the map fits.               *)
(*                                                                         *)
(* Time is a discrete clock `now`; Instant::now() reads it.                *)
(***************************************************************************)
EXTENDS Integers, Sequences, FiniteSets, TLC

\* ---------------------------------------------------------------- bounds
NumKeys == 3
NumValues == 2
MaxCap == 2
MaxTtl == 1
MaxTime == 2
NumCallers == 2

\* Duration::from_secs(120) in DefaultCache::new
DefaultTtl == 120

Keys == 1..NumKeys
Values == 1..NumValues
Caps == 1..MaxCap
Ttls == 0..MaxTtl

\* Option::None of get
None == 0

VARIABLES
    ttl,        \* DefaultCache.ttl
    cache,      \* DefaultCache.cache : [map, max_size]
    now,        \* the clock read by Instant::now()
    last,       \* the operation just performed, its arguments and its result
    pre,        \* ttl, cache and the orders below as they were before it
    ttlSet,     \* the argument of the latest set_ttl call (DefaultTtl before any)
    hist,       \* per key: "stored" while the entry of its latest set is in the
                \* map, with the value set and the deadline (time of the set +
                \* TTL requested at the set); "cleared" from a clear() to the
                \* next set of the key; "none" otherwise
    writeOrder, \* the stored keys ordered by their latest set, oldest first
    useOrder,   \* the stored keys ordered by their latest set or get/has hit
    wr,         \* the set calls in flight, in order of entry: key, value, the
                \* next step ("remove" or "insert") and the value and expiration
                \* of the live entry the call found
    entered     \* the set call that entered last, until another mutation

vars == <<ttl, cache, now, last, pre, ttlSet, hist, writeOrder, useOrder, wr, entered>>

\* ------------------------------------------------------ sequence helpers
RECURSIVE SeqWithout(_, _)
SeqWithout(s, x) ==
    IF s = <<>> THEN <<>>
    ELSE IF Head(s) = x THEN SeqWithout(Tail(s), x)
    ELSE <<Head(s)>> \o SeqWithout(Tail(s), x)

RECURSIVE SeqRestrict(_, _)
SeqRestrict(s, S) ==
    IF s = <<>> THEN <<>>
    ELSE IF Head(s) \in S THEN <<Head(s)>> \o SeqRestrict(Tail(s), S)
    ELSE SeqRestrict(Tail(s), S)

\* --------------------------------------------------- ttl_cache::Entry<V>
\* Entry::new(v, duration): expiration = Instant::now() + duration
EntryNew(k, v, duration, t) == [key |-> k, value |-> v, expiration |-> t + duration]

\* Entry::is_expired: Instant::now() > self.expiration
is_expired(e, t) == t > e.expiration

\* ------------------------------------------------ LinkedHashMap<K, Entry>
MapKeys(m) == {m[i].key : i \in 1..Len(m)}

RECURSIVE MapWithout(_, _)
\* LinkedHashMap::remove(k): detach the node of k, if any
MapWithout(m, k) ==
    IF m = <<>> THEN <<>>
    ELSE IF Head(m).key = k THEN MapWithout(Tail(m), k)
    ELSE <<Head(m)>> \o MapWithout(Tail(m), k)

\* LinkedHashMap::get(k): the entry of k, or None
MapGet(m, k) ==
    IF k \in MapKeys(m) THEN (CHOOSE i \in 1..Len(m) : m[i].key = k) ELSE 0

MapInsert_dup(m, e) == Append(m, e)

\* LinkedHashMap::insert(k, e): an existing node gets the new value and is
\* re-attached at the back; a new node is attached at the back
MapInsert(m, e) == Append(MapWithout(m, e.key), e)

\* ------------------------------------------------------- TtlCache<K, V>
TtlNew(cap) == [map |-> <<>>, max_size |-> cap]

remove_oldest_back(c) ==
    IF c.map = <<>> THEN c ELSE [c EXCEPT !.map = SubSeq(c.map, 1, Len(c.map) - 1)]

\* TtlCache::remove_oldest: self.map.pop_front()
remove_oldest(c) ==
    IF c.map = <<>> THEN c ELSE [c EXCEPT !.map = Tail(c.map)]

TtlGet_raw(c, k, t) ==
    LET i == MapGet(c.map, k)
    IN  IF i = 0 THEN None ELSE c.map[i].value

\* TtlCache::get(&self, k): the value unless the entry is missing or expired
TtlGet(c, k, t) ==
    LET i == MapGet(c.map, k)
    IN  IF i = 0 THEN None
        ELSE IF is_expired(c.map[i], t) THEN None
        ELSE c.map[i].value

contains_key_raw(c, k, t) == k \in MapKeys(c.map)

\* TtlCache::contains_key(&self, k): the expiration check is that of get
contains_key(c, k, t) == TtlGet(c, k, t) # None

\* TtlCache::remove(k)
TtlRemove(c, k) == [c EXCEPT !.map = MapWithout(c.map, k)]

\* TtlCache::insert(k, v, ttl): insert into the map, then pop the oldest
\* entry when the map holds more than max_size entries
TtlInsert(c, k, v, duration, t) ==
    LET c1 == [c EXCEPT !.map = MapInsert(c.map, EntryNew(k, v, duration, t))]
    IN  IF Len(c1.map) > c1.max_size THEN remove_oldest(c1) ELSE c1

RECURSIVE PopFront(_, _)
PopFront(c, n) == IF n <= 0 THEN c ELSE PopFront(remove_oldest(c), n - 1)

TtlSetCapacity_lazy(c, cap) == [c EXCEPT !.max_size = cap]

TtlSetCapacity_newest(c, cap) ==
    [c EXCEPT !.map = SubSeq(c.map, 1, IF Len(c.map) < cap THEN Len(c.map) ELSE cap),
              !.max_size = cap]

\* TtlCache::set_capacity(cap): for _ in cap..len { remove_oldest() };
\* max_size = cap
TtlSetCapacity(c, cap) ==
    [PopFront(c, Len(c.map) - cap) EXCEPT !.max_size = cap]

TtlClear_front(c) == remove_oldest(c)

\* TtlCache::clear: self.map.clear()
TtlClear(c) == [c EXCEPT !.map = <<>>]

\* ---------------------------------------------------- DefaultCache<K, V>
\* self is the record [ttl, cache]
DefaultCacheNew(cap) == [ttl |-> DefaultTtl, cache |-> TtlNew(cap)]

set_capacity(self, cap) == [self EXCEPT !.cache = TtlSetCapacity(self.cache, cap)]

set_ttl_retro(self, d) ==
    [ttl |-> d,
     cache |-> [self.cache EXCEPT !.map =
        [i \in 1..Len(self.cache.map) |->
            [self.cache.map[i] EXCEPT !.expiration = @ - self.ttl + d]]]]

set_ttl(self, d) == [self EXCEPT !.ttl = d]

get(self, k, t) == TtlGet(self.cache, k, t)

has(self, k, t) == contains_key(self.cache, k, t)

set_inplace(self, k, v, t) ==
    IF has(self, k, t)
    THEN [self EXCEPT !.cache.map =
            [i \in 1..Len(@) |-> IF @[i].key = k THEN EntryNew(k, v, self.ttl, t) ELSE @[i]]]
    ELSE [self EXCEPT !.cache = TtlInsert(self.cache, k, v, self.ttl, t)]

set_keepexp(self, k, v, t) ==
    IF has(self, k, t)
    THEN LET old == self.cache.map[MapGet(self.cache.map, k)]
             c1 == TtlRemove(self.cache, k)
         IN  [self EXCEPT !.cache = TtlInsert(c1, k, v, old.expiration - t, t)]
    ELSE [self EXCEPT !.cache = TtlInsert(self.cache, k, v, self.ttl, t)]

set(self, k, v, t) ==
    LET c1 == IF has(self, k, t) THEN TtlRemove(self.cache, k) ELSE self.cache
    IN  [self EXCEPT !.cache = TtlInsert(c1, k, v, self.ttl, t)]

clear(self) == [self EXCEPT !.cache = TtlClear(self.cache)]

\* ------------------------------------------------------------ the state
Self == [ttl |-> ttl, cache |-> cache]
PreSelf == [ttl |-> pre.ttl, cache |-> pre.cache]
\* the clock before the operation just performed
PreNow == IF last.op = "tick" THEN now - 1 ELSE now

NoHist == [val |-> None, due |-> 0, st |-> "none"]
NoCall == [key |-> 0, val |-> 0, old |-> None]

\* bookkeeping shared by every operation: remember the state before it and
\* note which stored entries it took out of the map
Track(op, k, v, ret, found, newCache) ==
    LET stored == MapKeys(newCache.map)
        hit == op \in {"get", "has"} /\ found
    IN
    /\ last' = [op |-> op, key |-> k, val |-> v, ret |-> ret, found |-> found]
    /\ pre' = [ttl |-> ttl, cache |-> cache, writeOrder |-> writeOrder,
               useOrder |-> useOrder]
    /\ ttlSet' = IF op = "set_ttl" THEN v ELSE ttlSet
    /\ hist' = [x \in Keys |->
                  IF op = "set" /\ x = k /\ x \in stored
                  THEN [val |-> v, due |-> now + ttlSet, st |-> "stored"]
                  ELSE IF op = "clear"
                  THEN [NoHist EXCEPT !.st = "cleared"]
                  ELSE IF hist[x].st = "stored" /\ x \notin stored
                  THEN NoHist
                  ELSE hist[x]]
    /\ writeOrder' = SeqRestrict(IF op = "set" THEN Append(SeqWithout(writeOrder, k), k)
                                 ELSE writeOrder, stored)
    /\ useOrder' = SeqRestrict(IF op = "set" \/ hit THEN Append(SeqWithout(useOrder, k), k)
                               ELSE useOrder, stored)

Init ==
    /\ \E cap \in Caps :
         /\ ttl = DefaultCacheNew(cap).ttl
         /\ cache = DefaultCacheNew(cap).cache
         /\ pre = [ttl |-> DefaultCacheNew(cap).ttl, cache |-> DefaultCacheNew(cap).cache,
                   writeOrder |-> <<>>, useOrder |-> <<>>]
    /\ now = 0
    /\ last = [op |-> "new", key |-> 0, val |-> 0, ret |-> None, found |-> FALSE]
    /\ ttlSet = DefaultTtl
    /\ hist = [x \in Keys |-> NoHist]
    /\ writeOrder = <<>>
    /\ useOrder = <<>>
    /\ wr = <<>>
    /\ entered = NoCall

SetCapacity ==
    \E cap \in Caps :
        LET r == set_capacity(Self, cap)
        IN  /\ ttl' = r.ttl
            /\ cache' = r.cache
            /\ now' = now
            /\ Track("set_capacity", 0, cap, None, FALSE, r.cache)
            /\ UNCHANGED <<wr, entered>>

SetTtl ==
    \E d \in Ttls :
        LET r == set_ttl(Self, d)
        IN  /\ ttl' = r.ttl
            /\ cache' = r.cache
            /\ now' = now
            /\ Track("set_ttl", 0, d, None, FALSE, r.cache)
            /\ UNCHANGED <<wr, entered>>

Get_refresh ==
    \E k \in Keys :
        LET r == get(Self, k, now)
            i == MapGet(cache.map, k)
            c1 == IF r = None THEN cache
                  ELSE [cache EXCEPT !.map = Append(MapWithout(@, k), @[i])]
        IN  /\ cache' = c1
            /\ UNCHANGED <<ttl, now>>
            /\ Track("get", k, 0, r, r # None, c1)
            /\ UNCHANGED <<wr, entered>>

Get ==
    \E k \in Keys :
        LET r == get(Self, k, now)
        IN  /\ UNCHANGED <<ttl, cache, now>>
            /\ Track("get", k, 0, r, r # None, cache)
            /\ UNCHANGED <<wr, entered>>

Has ==
    \E k \in Keys :
        LET r == has(Self, k, now)
        IN  /\ UNCHANGED <<ttl, cache, now>>
            /\ Track("has", k, 0, None, r, cache)
            /\ UNCHANGED <<wr, entered>>

Set ==
    \E k \in Keys, v \in Values :
        LET r == set(Self, k, v, now)
        IN  /\ ttl' = r.ttl
            /\ cache' = r.cache
            /\ now' = now
            /\ Track("set", k, v, None, FALSE, r.cache)
            /\ UNCHANGED <<wr, entered>>

Clear ==
    LET r == clear(Self)
    IN  /\ ttl' = r.ttl
        /\ cache' = r.cache
        /\ now' = now
        /\ Track("clear", 0, 0, None, FALSE, r.cache)
        /\ UNCHANGED <<wr, entered>>

\* the clock moves on between two operations
Tick ==
    /\ now < MaxTime
    /\ now' = now + 1
    /\ UNCHANGED <<ttl, cache>>
    /\ Track("tick", 0, 0, None, FALSE, cache)
    /\ UNCHANGED <<wr, entered>>

Next ==
    \/ SetCapacity
    \/ SetTtl
    \/ Get
    \/ Has
    \/ Set
    \/ Clear
    \/ Tick

Spec == Init /\ [][Next]_vars

\* ------------------------------------------------- concurrent callers
\* get and has borrow the cache shared (&self): granted while no set holds it
Readable_any(w) == TRUE

Readable(w) == w = <<>>

\* set, set_capacity, set_ttl and clear borrow it exclusively (&mut self):
\* granted while no other call holds it
Writable_any(w) == TRUE

Writable(w) == w = <<>>

\* set, line 54: the call takes the cache and evaluates self.has(&k)
SetEnter ==
    \E k \in Keys, v \in Values :
        LET found == has(Self, k, now)
            old == get(Self, k, now)
            exp == IF found THEN cache.map[MapGet(cache.map, k)].expiration ELSE 0
        IN  /\ Len(wr) < NumCallers
            /\ Writable(wr)
            /\ wr' = Append(wr, [key |-> k, val |-> v, old |-> old, exp |-> exp,
                                 pc |-> IF found THEN "remove" ELSE "insert"])
            /\ entered' = [key |-> k, val |-> v, old |-> old]
            /\ UNCHANGED <<ttl, cache, now>>
            /\ Track("set_enter", k, v, None, found, cache)

\* set, line 55: self.cache.remove(&k)
SetRemove ==
    \E i \in 1..Len(wr) :
        LET c1 == TtlRemove(cache, wr[i].key)
        IN  /\ wr[i].pc = "remove"
            /\ cache' = c1
            /\ wr' = [wr EXCEPT ![i].pc = "insert"]
            /\ UNCHANGED <<ttl, now, entered>>
            /\ Track("set_remove", wr[i].key, wr[i].val, None, FALSE, c1)

\* set, line 57: self.cache.insert(k, v, self.ttl); the call returns
SetInsert ==
    \E i \in 1..Len(wr) :
        LET c1 == TtlInsert(cache, wr[i].key, wr[i].val, ttl, now)
        IN  /\ wr[i].pc = "insert"
            /\ cache' = c1
            /\ wr' = SubSeq(wr, 1, i - 1) \o SubSeq(wr, i + 1, Len(wr))
            /\ UNCHANGED <<ttl, now, entered>>
            /\ Track("set", wr[i].key, wr[i].val, None, FALSE, c1)

CGet == Readable(wr) /\ Get

CHas == Readable(wr) /\ Has

CSetTtl == Writable(wr) /\ SetTtl

CSetCapacity == Writable(wr) /\ SetCapacity

CClear == Writable(wr) /\ Clear

NextConc ==
    \/ SetEnter
    \/ SetRemove
    \/ SetInsert
    \/ CGet
    \/ CHas
    \/ CSetTtl
    \/ CSetCapacity
    \/ CClear
    \/ Tick

SpecConc == Init /\ [][NextConc]_vars

\* ------------------------------------------------- observable vocabulary
\* the keys a caller sees as present now / saw as present before the last operation
LiveKeys == {k \in Keys : has(Self, k, now)}
PreLiveKeys == {k \in Keys : has(PreSelf, k, PreNow)}
PreStored == MapKeys(pre.cache.map)

\* the last operation was a set of a key not stored before, into a cache that
\* held max_size entries, all of them live
OverflowingSet ==
    /\ last.op = "set"
    /\ last.key \notin PreStored
    /\ Cardinality(PreLiveKeys) = pre.cache.max_size

\* the last n elements of a sequence, as a set
LastN(s, n) == {s[i] : i \in {j \in 1..Len(s) : j > Len(s) - n}}

\* x comes before y in sequence s
Before(s, x, y) ==
    \E i, j \in 1..Len(s) : i < j /\ s[i] = x /\ s[j] = y

\* ----------------------------------------------------------------- C1
\* C1: in any reachable state with capacity >= 1, right after set(k, v), with
\* the clock where the set left it, get(k) returns v.
C1_SetThenGet ==
    (last.op = "set" /\ cache.max_size >= 1) => get(Self, last.key, now) = last.val

\* a set of a new key into a full cache, under a zero TTL
C1_Witness ==
    /\ OverflowingSet
    /\ ttl = 0
    /\ get(Self, last.key, now) = last.val

\* ----------------------------------------------------------------- C2
\* C2: in every reachable state the number of keys for which has(k) is true
\* is at most the current capacity.
C2_LiveWithinCapacity == Cardinality(LiveKeys) <= cache.max_size

\* set_capacity has just shrunk a cache that held more live keys than the new capacity
C2_Witness ==
    /\ last.op = "set_capacity"
    /\ Cardinality(PreLiveKeys) > cache.max_size
    /\ Cardinality(LiveKeys) = cache.max_size

\* ----------------------------------------------------------------- C3
\* C3: while the entry stored by set(k, v) under set_ttl(t) is neither evicted,
\* cleared nor replaced, has(k) is true and get(k) = v at every time before
\* (time of the set + t), and has(k) is false and get(k) is absent at every
\* time after it, although the entry is still in the map.
C3_TtlWindow ==
    \A k \in Keys :
        hist[k].st = "stored" =>
            /\ now < hist[k].due =>
                   has(Self, k, now) /\ get(Self, k, now) = hist[k].val
            /\ now > hist[k].due =>
                   ~has(Self, k, now) /\ get(Self, k, now) = None

\* a key set under a TTL given by set_ttl, past its deadline and still in the map
C3_Witness ==
    \E k \in Keys :
        /\ hist[k].st = "stored"
        /\ ttlSet # DefaultTtl
        /\ now > hist[k].due
        /\ k \in MapKeys(cache.map)
        /\ ~has(Self, k, now)

\* ----------------------------------------------------------------- C4
\* C4: with capacity N and N live keys whose order of last use is their order
\* of insertion (as it is when none was read since it was set), a set of a new
\* key leaves has false for the earliest-set key and true for the other N-1
\* keys and for the new key.
C4_OldestUnreadEvicted ==
    (OverflowingSet /\ pre.useOrder = pre.writeOrder) =>
        /\ ~has(Self, Head(pre.writeOrder), now)
        /\ \A k \in PreLiveKeys \ {Head(pre.writeOrder)} : has(Self, k, now)
        /\ has(Self, last.key, now)

\* the N = 2 case: set(a); set(b); set(c)
C4_Witness ==
    /\ OverflowingSet
    /\ pre.useOrder = pre.writeOrder
    /\ pre.cache.max_size = 2
    /\ Cardinality(LiveKeys) = 2

\* ----------------------------------------------------------------- C5
\* C5 (as claimed): on overflow the key evicted is the least recently used
\* one, a get or has hit counting as a use.
C5_LruEvicted ==
    OverflowingSet =>
        /\ ~has(Self, Head(pre.useOrder), now)
        /\ \A k \in PreLiveKeys \ {Head(pre.useOrder)} : has(Self, k, now)

\* C5 (amended): on overflow the key evicted is the one set longest ago,
\* whatever was read since: get and has do not count as a use.
C5_OldestWrittenEvicted ==
    OverflowingSet =>
        /\ ~has(Self, Head(pre.writeOrder), now)
        /\ \A k \in PreLiveKeys \ {Head(pre.writeOrder)} : has(Self, k, now)
        /\ has(Self, last.key, now)
        /\ cache.map = Append(Tail(pre.cache.map),
                              EntryNew(last.key, last.val, pre.ttl, now))

\* set(a); set(b); get(a); set(c): a, the key read last, is the one evicted
C5_Witness ==
    /\ OverflowingSet
    /\ pre.cache.max_size = 2
    /\ Head(pre.useOrder) # Head(pre.writeOrder)
    /\ ~has(Self, Head(pre.writeOrder), now)
    /\ has(Self, Head(pre.useOrder), now)

\* ----------------------------------------------------------------- C6
\* C6: no key has two entries; get(k) returns nothing but the value of the
\* latest set(k, _); and a set over a live entry makes get(k) return the new value.
C6_OneEntryLatestValue ==
    /\ \A i, j \in 1..Len(cache.map) :
           cache.map[i].key = cache.map[j].key => i = j
    /\ \A k \in Keys :
           get(Self, k, now) # None =>
               hist[k].st = "stored" /\ get(Self, k, now) = hist[k].val
    /\ (last.op = "set" /\ get(PreSelf, last.key, PreNow) # None) =>
           get(Self, last.key, now) = last.val

\* set(k, v1); set(k, v2) with v1 # v2
C6_Witness ==
    /\ last.op = "set"
    /\ get(PreSelf, last.key, PreNow) \notin {None, last.val}
    /\ get(Self, last.key, now) = last.val

\* ----------------------------------------------------------------- C7
\* C7: set_ttl(t) leaves the map (values, expirations, order) and the capacity
\* as they were and sets the TTL to t; every stored entry expires at the
\* deadline fixed by its own set, whatever set_ttl calls came later.
C7_SetTtlFrame ==
    /\ last.op = "set_ttl" => (cache = pre.cache /\ ttl = last.val)
    /\ \A i \in 1..Len(cache.map) :
           /\ hist[cache.map[i].key].st = "stored"
           /\ cache.map[i].expiration = hist[cache.map[i].key].due
           /\ cache.map[i].value = hist[cache.map[i].key].val

\* set_ttl has just changed the TTL over a stored entry
C7_Witness ==
    /\ last.op = "set_ttl"
    /\ ttl # pre.ttl
    /\ \E i \in 1..Len(cache.map) : cache.map[i].expiration # now + ttl

\* ----------------------------------------------------------------- C8
\* C8 (as claimed): set_capacity(n) with n below the number of live keys
\* leaves at most n live keys, and they are the n most recently used ones.
C8_ShrinkKeepsMostRecentlyUsed ==
    (last.op = "set_capacity" /\ last.val < Cardinality(PreLiveKeys)) =>
        /\ Cardinality(LiveKeys) <= last.val
        /\ LiveKeys = LastN(SeqRestrict(pre.useOrder, PreLiveKeys), last.val)

\* C8 (amended): set_capacity(n) with n below the number of live keys leaves
\* at most n live keys; the entries kept are the n most recently set ones,
\* reads not counting, so every key that stops being live was set before
\* every key that stays live, and when no stored entry was expired the live
\* keys are exactly the n most recently set.
C8_ShrinkKeepsMostRecentlyWritten ==
    (last.op = "set_capacity" /\ last.val < Cardinality(PreLiveKeys)) =>
        /\ Cardinality(LiveKeys) <= last.val
        /\ MapKeys(cache.map) = LastN(pre.writeOrder, last.val)
        /\ \A r \in PreLiveKeys \ LiveKeys, s \in LiveKeys :
               Before(pre.writeOrder, r, s)
        /\ PreLiveKeys = PreStored => LiveKeys = LastN(pre.writeOrder, last.val)

\* set(a); set(b); get(a); set_capacity(1): b, not a, is kept
C8_Witness ==
    /\ last.op = "set_capacity"
    /\ last.val < Cardinality(PreLiveKeys)
    /\ pre.useOrder # pre.writeOrder
    /\ LiveKeys # {}
    /\ LiveKeys # LastN(SeqRestrict(pre.useOrder, PreLiveKeys), last.val)

\* ----------------------------------------------------------------- C9
\* C9: from a clear() until the next set of k, has(k) is false and get(k) is
\* absent, for every key k.
C9_ClearedStaysAbsent ==
    \A k \in Keys :
        hist[k].st = "cleared" => ~has(Self, k, now) /\ get(Self, k, now) = None

\* clear() has just emptied a full cache
C9_Witness ==
    /\ last.op = "clear"
    /\ Cardinality(PreLiveKeys) = pre.cache.max_size
    /\ pre.cache.max_size > 1
    /\ \A k \in Keys : hist[k].st = "cleared"

C11_AbsentStaysAbsent ==
    \A k \in Keys :
        (~has(PreSelf, k, PreNow) /\ ~(last.op = "set" /\ last.key = k)) =>
            ~has(Self, k, now)

\* a key was set, has expired, and stays absent through a set_ttl that
\* would have covered it
C11_Witness ==
    \E k \in PreStored :
        /\ ~has(PreSelf, k, PreNow)
        /\ last.op = "set_ttl"
        /\ k \in MapKeys(cache.map)
        /\ now <= cache.map[MapGet(cache.map, k)].expiration - pre.ttl + ttl
        /\ ~has(Self, k, now)

\* ---------------------------------------------------------------- C12
\* the set calls in flight that are replacing a live entry still within its TTL
Replacing == {i \in 1..Len(wr) : wr[i].old # None /\ now <= wr[i].exp}

\* C12: while set(k, v2) replaces a live (k, v1), a get(k) by another caller
\* returns v1 or v2 and a has(k) returns true: no read falls between the
\* removal of the old entry and the insertion of the new one, and once the
\* set has returned k has one entry, holding v2.
C12_ReplaceIsAtomic ==
    /\ \A i \in Replacing :
           /\ (last.op = "get" /\ last.key = wr[i].key) =>
                  last.ret \in {wr[i].old, wr[i].val}
           /\ (last.op = "has" /\ last.key = wr[i].key) => last.found
           /\ ~has(Self, wr[i].key, now) => ~Readable(wr)
    /\ (last.op = "set" /\ wr = <<>>) =>
           /\ get(Self, last.key, now) = last.val
           /\ Cardinality({i \in 1..Len(cache.map) : cache.map[i].key = last.key}) = 1

\* a set has removed the live (k, v1) and not yet inserted (k, v2)
C12_Witness ==
    /\ last.op = "set_remove"
    /\ \E i \in Replacing :
           /\ wr[i].pc = "insert"
           /\ wr[i].old # wr[i].val
           /\ wr[i].key = last.key
           /\ ~has(Self, wr[i].key, now)
           /\ has(PreSelf, wr[i].key, PreNow)

\* ---------------------------------------------------------------- C13
\* C13: when the set calls on a key have all returned, the key has exactly
\* one entry and its value is that of the call that entered last.
C13_LastEnteredWins ==
    (last.op = "set" /\ wr = <<>> /\ entered.key = last.key) =>
        /\ Cardinality({i \in 1..Len(cache.map) : cache.map[i].key = last.key}) = 1
        /\ cache.map[MapGet(cache.map, last.key)].value = entered.val
        /\ get(Self, last.key, now) = entered.val

\* set(k, v1) by one caller, then set(k, v2) by another: v2 replaced v1
C13_Witness ==
    /\ last.op = "set"
    /\ wr = <<>>
    /\ entered.key = last.key
    /\ entered.old \notin {None, entered.val}
    /\ get(Self, last.key, now) = entered.val

\* ---------------------------------------------------------------- C14
\* C14: a set on a key with a live entry re-inserts it as the newest entry,
\* the others keeping their order; so on the next overflow the key set last
\* survives with its value and the key set longest ago is the one evicted.
C14_ResetMakesNewest ==
    /\ (last.op = "set" /\ has(PreSelf, last.key, PreNow)) =>
           cache.map = Append(MapWithout(pre.cache.map, last.key),
                              EntryNew(last.key, last.val, pre.ttl, now))
    /\ (OverflowingSet /\ pre.cache.max_size >= 2) =>
           LET newest == pre.writeOrder[Len(pre.writeOrder)]
           IN  /\ get(Self, newest, now) = get(PreSelf, newest, PreNow)
               /\ ~has(Self, Head(pre.writeOrder), now)

\* set(a, x); set(b, y); set(a, x2): a moved from the front to the back
C14_Witness ==
    /\ last.op = "set"
    /\ Len(pre.cache.map) = 2
    /\ pre.cache.max_size = 2
    /\ pre.cache.map[1].key = last.key
    /\ get(PreSelf, last.key, PreNow) \notin {None, last.val}
    /\ cache.map[2].key = last.key
    /\ cache.map[1] = pre.cache.map[2]

\* ---------------------------------------------------------------- C15
\* C15: a set on a key that already has an entry stores the expiration
\* (time of this set + TTL in effect at this set), whatever the previous
\* expiration was, and the key is live exactly until that deadline has passed.
C15_ResetFreshExpiration ==
    /\ (last.op = "set" /\ last.key \in PreStored) =>
           /\ cache.map[MapGet(cache.map, last.key)].expiration = now + ttlSet
           /\ has(Self, last.key, now)
    /\ \A k \in Keys :
           hist[k].st = "stored" => (has(Self, k, now) <=> now <= hist[k].due)

\* set_ttl(t1); set(k, v1); set_ttl(t2); set(k, v2) with t2 < t1
C15_Witness ==
    /\ last.op = "set"
    /\ has(PreSelf, last.key, PreNow)
    /\ ttlSet # DefaultTtl
    /\ pre.cache.map[MapGet(pre.cache.map, last.key)].expiration > now + ttlSet
    /\ cache.map[MapGet(cache.map, last.key)].expiration = now + ttlSet

\* ---------------------------------------------------------------- C16
\* C16: set(k, v) takes at most one other live key out of the cache, and
\* only when k is new and the live keys already fill the capacity; a set on
\* a live key evicts nothing; every other key that stays keeps its entry.
C16_SetEvictsOnlyOnLiveOverflow ==
    last.op = "set" =>
        LET others == PreLiveKeys \ {last.key}
            removed == others \ LiveKeys
        IN  /\ Cardinality(removed) <= 1
            /\ removed # {} =>
                   Cardinality(PreLiveKeys \cup {last.key}) > pre.cache.max_size
            /\ has(PreSelf, last.key, PreNow) => removed = {}
            /\ \A k \in others \ removed :
                   cache.map[MapGet(cache.map, k)] =
                       pre.cache.map[MapGet(pre.cache.map, k)]

\* ---------------------------------------------------------------- C17
\* C17: a set that leaves the number of non-expired keys within the capacity
\* removes no non-expired entry: every key live before it is live after it
\* with the same value, also when expired entries are still stored.
C17_LiveKeptWithinCapacity ==
    (last.op = "set"
        /\ Cardinality(PreLiveKeys \cup {last.key}) <= pre.cache.max_size) =>
        \A k \in PreLiveKeys \ {last.key} :
            get(Self, k, now) = get(PreSelf, k, PreNow)

\* ---------------------------------------------------------------- C18
\* C18: get(k) and has(k) leave the stored entries, their order, the
\* capacity and the default TTL as they were, whether k is present, expired
\* or absent.
C18_ReadsChangeNothing ==
    last.op \in {"get", "has"} =>
        /\ cache = pre.cache
        /\ ttl = pre.ttl
        /\ writeOrder = pre.writeOrder

\* get(k) has just hit the oldest of two stored entries
C18_Witness ==
    /\ last.op = "get"
    /\ last.found
    /\ Len(cache.map) = 2
    /\ cache.map[1].key = last.key

====
